---------------------------- MODULE Spec2Model ----------------------------
(***************************************************************************)
(* A model of geocode-rs (src/src/lib.rs): Geocode::encode and             *)
(* Geocode::get_intervals for the variants Geohash, Geohash16 and          *)
(* QuadTile.                                                               *)
(*                                                                         *)
(* Numbers.  The f64 values of the source are modelled as exact binary     *)
(* fixed-point numbers: an integer part and six limbs of 16                *)
(* fraction bits each.  Every constant below is the exact value of the     *)
(* f64 the source's literal denotes; midpoints, halvings and differences   *)
(* are exact as long as they fit the fraction (the predicate Exact says    *)
(* they do), so the model does not show the rounding an f64 applies once   *)
(* an interval is narrower than its 53-bit mantissa resolves.              *)
(*                                                                         *)
(* Integer overflow.  Rust defines an overflowing `+=` or `pow` to panic   *)
(* when the build has overflow checks (the default of the dev and test     *)
(* profiles) and to wrap otherwise (the release profile).  The variable    *)
(* overflow_checks holds the build's choice.                               *)
(***************************************************************************)
EXTENDS Integers, Sequences, FiniteSets, TLC

(***************************************************************************)
(* Bounds of the model.                                                    *)
(***************************************************************************)
MaxPrecision == 26      \* encode / get_intervals are called with 0..MaxPrecision
ParPrecision == 2       \* precisions of the interleaved calls of SpecPar

Threads == {"t1", "t2"}
MainThread == "t1"

(***************************************************************************)
(* Fixed-point numbers: [i |-> integer part (floor), f |-> limbs], the     *)
(* value being i + f[1]/2^16 + f[2]/2^32 + ... + f[6]/2^96                 *)
(***************************************************************************)
Limb == 2^16

\* limb k of a literal's fraction, given by its leading limbs
LimbOf(l, k) == IF k <= Len(l) THEN l[k] ELSE 0

Num(i, l) ==
    [i |-> i,
     f |-> <<LimbOf(l, 1), LimbOf(l, 2), LimbOf(l, 3), LimbOf(l, 4), LimbOf(l, 5), LimbOf(l, 6)>>]

Zero == Num(0, <<>>)

FracLimbs == Len(Zero.f)

\* a + b
Add(a, b) ==
    LET s6 == a.f[6] + b.f[6]
        s5 == a.f[5] + b.f[5] + s6 \div Limb
        s4 == a.f[4] + b.f[4] + s5 \div Limb
        s3 == a.f[3] + b.f[3] + s4 \div Limb
        s2 == a.f[2] + b.f[2] + s3 \div Limb
        s1 == a.f[1] + b.f[1] + s2 \div Limb
    IN  [i |-> a.i + b.i + s1 \div Limb,
         f |-> <<s1 % Limb, s2 % Limb, s3 % Limb, s4 % Limb, s5 % Limb, s6 % Limb>>]

\* a - b
Sub(a, b) ==
    LET s6 == a.f[6] - b.f[6]
        s5 == a.f[5] - b.f[5] + s6 \div Limb
        s4 == a.f[4] - b.f[4] + s5 \div Limb
        s3 == a.f[3] - b.f[3] + s4 \div Limb
        s2 == a.f[2] - b.f[2] + s3 \div Limb
        s1 == a.f[1] - b.f[1] + s2 \div Limb
    IN  [i |-> a.i - b.i + s1 \div Limb,
         f |-> <<s1 % Limb, s2 % Limb, s3 % Limb, s4 % Limb, s5 % Limb, s6 % Limb>>]

\* limb k of a / 2, given the bit that comes down from the limb above
HalfLimb(above, limb) == ((above % 2) * Limb + limb) \div 2

\* a / 2 (the lowest fraction bit is shifted out)
Half(a) ==
    [i |-> a.i \div 2,
     f |-> <<HalfLimb(a.i, a.f[1]), HalfLimb(a.f[1], a.f[2]), HalfLimb(a.f[2], a.f[3]),
             HalfLimb(a.f[3], a.f[4]), HalfLimb(a.f[4], a.f[5]), HalfLimb(a.f[5], a.f[6])>>]

\* a > b
Gt(a, b) ==
    \/ a.i > b.i
    \/ /\ a.i = b.i
       /\ \E k \in 1..FracLimbs :
             /\ a.f[k] > b.f[k]
             /\ \A j \in 1..(k - 1) : a.f[j] = b.f[j]

Lt(a, b) == Gt(b, a)
Le(a, b) == ~Gt(a, b)
Ge(a, b) == ~Gt(b, a)

\* a / 2^16 (the lowest limb is shifted out)
ShiftLimb(a) ==
    [i |-> a.i \div Limb,
     f |-> <<a.i % Limb, a.f[1], a.f[2], a.f[3], a.f[4], a.f[5]>>]

\* a / 2^k
RECURSIVE HalfTimes(_, _)
HalfTimes(a, k) ==
    IF k = 0 THEN a
    ELSE IF k >= 16 THEN HalfTimes(ShiftLimb(a), k - 16)
    ELSE HalfTimes(Half(a), k - 1)

(***************************************************************************)
(* The variants' constants (lib.rs 3-13).  Bounds are <<min_x, max_x,      *)
(* min_y, max_y>>.                                                         *)
(***************************************************************************)
GEOHASH_BOUNDS ==
    <<Num(-180, <<>>), Num(180, <<>>), Num(-90, <<>>), Num(90, <<>>)>>

GEOHASH16_CHARS ==
    <<"0", "1", "2", "3", "4", "5", "6", "7", "8", "9", "a", "b", "c", "d", "e", "f">>

GEOHASH32_CHARS ==
    <<"0", "1", "2", "3", "4", "5", "6", "7", "8", "9", "b", "c", "d", "e", "f", "g",
      "h", "j", "k", "m", "n", "p", "q", "r", "s", "t", "u", "v", "w", "x", "y", "z">>

\* 20037508.342789248 as an f64 is 20037508 + 22465/2^16 + 2368/2^32
QUADTILE_MAX == Num(20037508, <<22465, 2368>>)
QUADTILE_MIN == Num(-20037509, <<43070, 63168>>)
QUADTILE_BOUNDS == <<QUADTILE_MIN, QUADTILE_MAX, QUADTILE_MIN, QUADTILE_MAX>>

QUADTILE_CHARS == <<"2", "0", "3", "1">>

Geocode == {"Geohash", "Geohash16", "QuadTile"}

\* the match of encode (lib.rs 31-39): <<min_x, max_x, min_y, max_y, char_bits, codes>>
Params(v) ==
    CASE v = "Geohash" ->
           <<GEOHASH_BOUNDS[1], GEOHASH_BOUNDS[2], GEOHASH_BOUNDS[3], GEOHASH_BOUNDS[4],
             5, GEOHASH32_CHARS>>
      [] v = "Geohash16" ->
           <<GEOHASH_BOUNDS[1], GEOHASH_BOUNDS[2], GEOHASH_BOUNDS[3], GEOHASH_BOUNDS[4],
             4, GEOHASH16_CHARS>>
      [] v = "QuadTile" ->
           <<QUADTILE_BOUNDS[1], QUADTILE_BOUNDS[2], QUADTILE_BOUNDS[3], QUADTILE_BOUNDS[4],
             2, QUADTILE_CHARS>>


(***************************************************************************)
(* Inputs.  The coordinates of the tests (lib.rs 136-139), each the exact  *)
(* value of its f64, the corners and the centre of each bounding           *)
(* rectangle, midpoints of deeper levels, and points just outside.         *)
(***************************************************************************)
APPLETON_LAT_LONG ==
    <<Num(-89, <<39321, 39321, 39320>>), Num(44, <<17476, 18907, 60452>>)>>
APPLETON_MERCATOR ==
    <<Num(-9840643, <<655, 23592>>), Num(5506802, <<44564, 31456>>)>>
FORT_COLLINS_LAT_LONG ==
    <<Num(-106, <<60420, 34208, 48720>>), Num(40, <<36645, 37258, 160>>)>>
FORT_COLLINS_MERCATOR ==
    <<Num(-11697236, <<20316, 10488>>), Num(4947534, <<48496, 41944>>)>>

\* the four corners of a bounding rectangle
Corners(b) == {<<b[1], b[3]>>, <<b[1], b[4]>>, <<b[2], b[3]>>, <<b[2], b[4]>>}

\* the f64 next above 180 is 180 + 2^-45; next above 20037508.34... is + 2^-28
GeoUlp == Num(0, <<0, 0, 8>>)
QuadUlp == Num(0, <<0, 16>>)

\* points with one coordinate one step outside the rectangle
Outside(b, ulp) ==
    {<<Sub(b[1], ulp), Zero>>, <<Add(b[2], ulp), Zero>>,
     <<Zero, Sub(b[3], ulp)>>, <<Zero, Add(b[4], ulp)>>}

GeoPoints ==
    Corners(GEOHASH_BOUNDS) \cup Outside(GEOHASH_BOUNDS, GeoUlp)
      \cup {APPLETON_LAT_LONG, FORT_COLLINS_LAT_LONG, <<Zero, Zero>>,
            <<Num(90, <<>>), Num(-45, <<>>)>>,
            <<Num(-135, <<>>), Num(67, <<32768>>)>>}

QuadPoints ==
    Corners(QUADTILE_BOUNDS) \cup Outside(QUADTILE_BOUNDS, QuadUlp)
      \cup {APPLETON_MERCATOR, FORT_COLLINS_MERCATOR, <<Zero, Zero>>,
            <<Half(QUADTILE_MAX), Half(QUADTILE_MIN)>>}

Points(v) == IF v = "QuadTile" THEN QuadPoints ELSE GeoPoints

\* the inputs of the interleaved calls
ParPoints(v) ==
    IF v = "QuadTile"
    THEN {APPLETON_MERCATOR, <<QUADTILE_MAX, QUADTILE_MAX>>, <<Add(QUADTILE_MAX, QuadUlp), Zero>>}
    ELSE {APPLETON_LAT_LONG, <<GEOHASH_BOUNDS[2], GEOHASH_BOUNDS[4]>>,
          <<Add(GEOHASH_BOUNDS[2], GeoUlp), Zero>>}

(***************************************************************************)
(* State.  Every variable but overflow_checks is a function of the thread  *)
(* making a call: the arguments and locals of its encode / get_intervals   *)
(* frame, its position pc in the code, and the result it got.  log is a    *)
(* history variable: one entry per bit the call has produced.              *)
(***************************************************************************)
VARIABLES overflow_checks,
          pc, op, self, x, y, precision,
          min_x, max_x, min_y, max_y, char_bits, codes,
          bits_total, hash_value, out, bit_i, result, log

args == <<op, self, x, y, precision>>
rect == <<min_x, max_x, min_y, max_y>>
table == <<char_bits, codes>>
vars == <<overflow_checks, pc, op, self, x, y, precision, min_x, max_x, min_y, max_y,
          char_bits, codes, bits_total, hash_value, out, bit_i, result, log>>

\* the range of bits_total: i8 (lib.rs 47)
I8_MAX == 127
I8_MIN == -128

\* Rust's % truncates toward zero: the remainder has the sign of the dividend
RustRem(a, b) == IF a >= 0 THEN a % b ELSE -((-a) % b)

\* one static cell shared by every call
HashCellStatic(t) == MainThread

\* the memory cell that holds call t's hash_value: a local of its own frame
HashCell(t) == t

NoResult == [kind |-> "None", val |-> <<>>]
OkResult(s) == [kind |-> "Ok", val |-> s]
ErrResult(px, py, b) == [kind |-> "Err", val |-> <<px, py, b>>]
PanicResult(msg) == [kind |-> "Panic", val |-> <<msg>>]

Init ==
    /\ overflow_checks \in BOOLEAN
    /\ pc = [t \in Threads |-> "idle"]
    /\ op = [t \in Threads |-> "none"]
    /\ self = [t \in Threads |-> "Geohash"]
    /\ x = [t \in Threads |-> Zero]
    /\ y = [t \in Threads |-> Zero]
    /\ precision = [t \in Threads |-> 0]
    /\ min_x = [t \in Threads |-> Zero]
    /\ max_x = [t \in Threads |-> Zero]
    /\ min_y = [t \in Threads |-> Zero]
    /\ max_y = [t \in Threads |-> Zero]
    /\ char_bits = [t \in Threads |-> 0]
    /\ codes = [t \in Threads |-> <<>>]
    /\ bits_total = [t \in Threads |-> 0]
    /\ hash_value = [t \in Threads |-> 0]
    /\ out = [t \in Threads |-> <<>>]
    /\ bit_i = [t \in Threads |-> 0]
    /\ result = [t \in Threads |-> NoResult]
    /\ log = [t \in Threads |-> <<>>]

\* thread t is in no call
Idle(t) == pc[t] = "idle"

(***************************************************************************)
(* encode (lib.rs 28-85)                                                   *)
(***************************************************************************)
\* the call and the match on self (lib.rs 28-39)
CallEncode(t, v, pt, p) ==
    /\ Idle(t)
    /\ pc' = [pc EXCEPT ![t] = "check"]
    /\ op' = [op EXCEPT ![t] = "encode"]
    /\ self' = [self EXCEPT ![t] = v]
    /\ x' = [x EXCEPT ![t] = pt[1]]
    /\ y' = [y EXCEPT ![t] = pt[2]]
    /\ precision' = [precision EXCEPT ![t] = p]
    /\ min_x' = [min_x EXCEPT ![t] = Params(v)[1]]
    /\ max_x' = [max_x EXCEPT ![t] = Params(v)[2]]
    /\ min_y' = [min_y EXCEPT ![t] = Params(v)[3]]
    /\ max_y' = [max_y EXCEPT ![t] = Params(v)[4]]
    /\ char_bits' = [char_bits EXCEPT ![t] = Params(v)[5]]
    /\ codes' = [codes EXCEPT ![t] = Params(v)[6]]
    /\ UNCHANGED <<overflow_checks, bits_total, hash_value, out, bit_i, result, log>>

\* a range check that rejects the bounds themselves
OutOfRangeExclusive(px, py, lox, hix, loy, hiy) ==
    Le(px, lox) \/ Ge(px, hix) \/ Le(py, loy) \/ Ge(py, hiy)

\* the condition of lib.rs 42
OutOfRange(px, py, lox, hix, loy, hiy) ==
    Lt(px, lox) \/ Gt(px, hix) \/ Lt(py, loy) \/ Gt(py, hiy)

\* the range check and the initialisation of the locals (lib.rs 41-49)
CheckRange(t) ==
    /\ pc[t] = "check"
    /\ IF OutOfRange(x[t], y[t], min_x[t], max_x[t], min_y[t], max_y[t])
       THEN /\ result' = [result EXCEPT ![t] =
                    ErrResult(x[t], y[t], <<min_x[t], max_x[t], min_y[t], max_y[t]>>)]
            /\ pc' = [pc EXCEPT ![t] = "done"]
            /\ UNCHANGED <<bits_total, hash_value, out>>
       ELSE /\ bits_total' = [bits_total EXCEPT ![t] = 0]
            /\ hash_value' = [hash_value EXCEPT ![HashCell(t)] = 0]
            /\ out' = [out EXCEPT ![t] = <<>>]
            /\ pc' = [pc EXCEPT ![t] = "while"]
            /\ UNCHANGED result
    /\ UNCHANGED <<overflow_checks, args, rect, table, bit_i, log>>

\* the loop condition (lib.rs 52) and the return of the string (lib.rs 84)
While(t) ==
    /\ pc[t] = "while"
    /\ IF Len(out[t]) < precision[t]
       THEN /\ pc' = [pc EXCEPT ![t] = "for"]
            /\ bit_i' = [bit_i EXCEPT ![t] = 0]
            /\ UNCHANGED result
       ELSE /\ pc' = [pc EXCEPT ![t] = "done"]
            /\ result' = [result EXCEPT ![t] = OkResult(out[t])]
            /\ UNCHANGED bit_i
    /\ UNCHANGED <<overflow_checks, args, rect, table, bits_total, hash_value, out, log>>

\* the midpoint of lib.rs 56 and 66
Mid(lo, hi) == Half(Add(hi, lo))

\* a comparison the wrong way round
UpperInverted(c, mid) == Lt(c, mid)

\* a comparison that sends the midpoint itself to the upper half
UpperOrEqual(c, mid) == Ge(c, mid)

\* the branch condition of lib.rs 57 and 67: TRUE selects the upper half
Upper(c, mid) == Gt(c, mid)

\* an alternation that restarts with every character
SplitsXPerChar(t) == bit_i[t] % 2 = 0

\* the axis the next bit refines (lib.rs 54)
SplitsX(t) == RustRem(bits_total[t], 2) = 0

\* hash_value after the shift (lib.rs 58, 61, 68, 71)
Shift(h, bit) == h * 2 + bit

\* bits_total += 1 (lib.rs 75) and the step of the for loop (lib.rs 53)
Count(t) ==
    IF bits_total[t] = I8_MAX
    THEN IF overflow_checks
         THEN /\ pc' = [pc EXCEPT ![t] = "done"]
              /\ result' = [result EXCEPT ![t] = PanicResult("attempt to add with overflow")]
              /\ UNCHANGED <<bits_total, bit_i>>
         ELSE /\ bits_total' = [bits_total EXCEPT ![t] = I8_MIN]
              /\ bit_i' = [bit_i EXCEPT ![t] = @ + 1]
              /\ UNCHANGED <<pc, result>>
    ELSE /\ bits_total' = [bits_total EXCEPT ![t] = @ + 1]
         /\ bit_i' = [bit_i EXCEPT ![t] = @ + 1]
         /\ UNCHANGED <<pc, result>>

\* one bit that splits the x interval (lib.rs 55-63, 75)
SplitX(t) ==
    /\ pc[t] = "for"
    /\ bit_i[t] < char_bits[t]
    /\ SplitsX(t)
    /\ LET mid == Mid(min_x[t], max_x[t])
           up == Upper(x[t], mid)
           bit == IF up THEN 1 ELSE 0
       IN  /\ hash_value' = [hash_value EXCEPT ![HashCell(t)] = Shift(@, bit)]
           /\ IF up
              THEN min_x' = [min_x EXCEPT ![t] = mid] /\ UNCHANGED max_x
              ELSE max_x' = [max_x EXCEPT ![t] = mid] /\ UNCHANGED min_x
           /\ log' = [log EXCEPT ![t] =
                   Append(@, [axis |-> "x", bit |-> bit, tie |-> x[t] = mid])]
    /\ Count(t)
    /\ UNCHANGED <<overflow_checks, args, min_y, max_y, table, out>>

\* one bit that splits the y interval (lib.rs 64-73, 75)
SplitY(t) ==
    /\ pc[t] = "for"
    /\ bit_i[t] < char_bits[t]
    /\ ~SplitsX(t)
    /\ LET mid == Mid(min_y[t], max_y[t])
           up == Upper(y[t], mid)
           bit == IF up THEN 1 ELSE 0
       IN  /\ hash_value' = [hash_value EXCEPT ![HashCell(t)] = Shift(@, bit)]
           /\ IF up
              THEN min_y' = [min_y EXCEPT ![t] = mid] /\ UNCHANGED max_y
              ELSE max_y' = [max_y EXCEPT ![t] = mid] /\ UNCHANGED min_y
           /\ log' = [log EXCEPT ![t] =
                   Append(@, [axis |-> "y", bit |-> bit, tie |-> y[t] = mid])]
    /\ Count(t)
    /\ UNCHANGED <<overflow_checks, args, min_x, max_x, table, out>>

\* the character of the accumulated bits is appended (lib.rs 78-81)
Push(t) ==
    /\ pc[t] = "for"
    /\ bit_i[t] = char_bits[t]
    /\ IF hash_value[HashCell(t)] < Len(codes[t])
       THEN /\ out' = [out EXCEPT ![t] = Append(@, codes[t][hash_value[HashCell(t)] + 1])]
            /\ hash_value' = [hash_value EXCEPT ![HashCell(t)] = 0]
            /\ pc' = [pc EXCEPT ![t] = "while"]
            /\ UNCHANGED result
       ELSE /\ pc' = [pc EXCEPT ![t] = "done"]
            /\ result' = [result EXCEPT ![t] = PanicResult("index out of bounds")]
            /\ UNCHANGED <<out, hash_value>>
    /\ UNCHANGED <<overflow_checks, args, rect, table, bits_total, bit_i, log>>

\* the caller takes the result; the frame is gone
Return(t) ==
    /\ pc[t] = "done"
    /\ pc' = [pc EXCEPT ![t] = "idle"]
    /\ op' = [op EXCEPT ![t] = "none"]
    /\ self' = [self EXCEPT ![t] = "Geohash"]
    /\ x' = [x EXCEPT ![t] = Zero]
    /\ y' = [y EXCEPT ![t] = Zero]
    /\ precision' = [precision EXCEPT ![t] = 0]
    /\ min_x' = [min_x EXCEPT ![t] = Zero]
    /\ max_x' = [max_x EXCEPT ![t] = Zero]
    /\ min_y' = [min_y EXCEPT ![t] = Zero]
    /\ max_y' = [max_y EXCEPT ![t] = Zero]
    /\ char_bits' = [char_bits EXCEPT ![t] = 0]
    /\ codes' = [codes EXCEPT ![t] = <<>>]
    /\ bits_total' = [bits_total EXCEPT ![t] = 0]
    /\ hash_value' = [hash_value EXCEPT ![HashCell(t)] = 0]
    /\ out' = [out EXCEPT ![t] = <<>>]
    /\ bit_i' = [bit_i EXCEPT ![t] = 0]
    /\ result' = [result EXCEPT ![t] = NoResult]
    /\ log' = [log EXCEPT ![t] = <<>>]
    /\ UNCHANGED overflow_checks

(***************************************************************************)
(* get_intervals (lib.rs 95-129)                                           *)
(***************************************************************************)
\* a u32 is <<high 16 bits, low 16 bits>>
U32(n) == <<n \div Limb, n % Limb>>

\* 2_u32.pow(e): [ovf |-> the power does not fit 32 bits, v |-> its low 32 bits]
Pow2U32(e) ==
    [ovf |-> e >= 32,
     v |-> IF e < 16 THEN <<0, 2^e>> ELSE IF e < 32 THEN <<2^(e - 16), 0>> ELSE <<0, 0>>]

\* the exponent of a u32 that is a power of two
RECURSIVE Log2U32(_)
Log2U32(d) ==
    IF d = U32(1) THEN 0
    ELSE 1 + Log2U32(<<d[1] \div 2, ((d[1] % 2) * Limb + d[2]) \div 2>>)

Inf == [inf |-> TRUE]

\* w / (d as f64), for the divisors 2_u32.pow yields: 0 or a power of two
DivU32(w, d) == IF d = U32(0) THEN Inf ELSE HalfTimes(w, Log2U32(d))

\* the exponents <<long_bits, lat_bits>> get_intervals raises 2 to
\* (lib.rs 99-102, 115-117, 124)
IntervalBits(v, p) ==
    CASE v = "Geohash" -> <<2 * p + (p + 1) \div 2, 2 * p + p \div 2>>
      [] v = "Geohash16" -> <<2 * p, 2 * p>>
      [] v = "QuadTile" -> <<p, p>>

\* the widths the deltas are taken of (lib.rs 105, 107, 114, 116, 123)
IntervalWidths(v) ==
    CASE v = "Geohash" ->
           <<Sub(GEOHASH_BOUNDS[2], GEOHASH_BOUNDS[1]), Sub(GEOHASH_BOUNDS[4], GEOHASH_BOUNDS[3])>>
      [] v = "Geohash16" ->
           <<Sub(GEOHASH_BOUNDS[2], GEOHASH_BOUNDS[1]), Sub(GEOHASH_BOUNDS[4], GEOHASH_BOUNDS[3])>>
      [] v = "QuadTile" ->
           <<Sub(QUADTILE_BOUNDS[2], QUADTILE_BOUNDS[1]), Sub(QUADTILE_BOUNDS[2], QUADTILE_BOUNDS[1])>>

\* what get_intervals(p) yields in a build with or without overflow checks
GetIntervals(v, p, checks) ==
    LET long_pow == Pow2U32(IntervalBits(v, p)[1])
        lat_pow == Pow2U32(IntervalBits(v, p)[2])
    IN  IF checks /\ (long_pow.ovf \/ lat_pow.ovf)
        THEN PanicResult("attempt to multiply with overflow")
        ELSE OkResult(<<DivU32(IntervalWidths(v)[1], long_pow.v),
                        DivU32(IntervalWidths(v)[2], lat_pow.v)>>)

CallGetIntervals(t, v, p) ==
    /\ Idle(t)
    /\ pc' = [pc EXCEPT ![t] = "done"]
    /\ op' = [op EXCEPT ![t] = "get_intervals"]
    /\ self' = [self EXCEPT ![t] = v]
    /\ precision' = [precision EXCEPT ![t] = p]
    /\ result' = [result EXCEPT ![t] = GetIntervals(v, p, overflow_checks)]
    /\ UNCHANGED <<overflow_checks, x, y, rect, table, bits_total, hash_value, out, bit_i, log>>

(***************************************************************************)
(* Specifications.  Spec: one caller, every input.  SpecPar: two threads   *)
(* whose calls interleave step by step, on few inputs.                     *)
(***************************************************************************)
Step(t) ==
    \/ CheckRange(t)
    \/ While(t)
    \/ SplitX(t)
    \/ SplitY(t)
    \/ Push(t)
    \/ Return(t)

Next ==
    \/ /\ Idle(MainThread)
       /\ \E v \in Geocode : \E pt \in Points(v) : \E p \in 0..MaxPrecision :
             CallEncode(MainThread, v, pt, p)
    \/ /\ Idle(MainThread)
       /\ \E v \in Geocode : \E p \in 0..MaxPrecision :
             CallGetIntervals(MainThread, v, p)
    \/ Step(MainThread)

Spec == Init /\ [][Next]_vars

NextPar ==
    \E t \in Threads :
       \/ /\ Idle(t)
          /\ \E v \in Geocode : \E pt \in ParPoints(v) : \E p \in 1..ParPrecision :
                CallEncode(t, v, pt, p)
       \/ /\ Idle(t)
          /\ \E v \in Geocode : \E p \in 1..ParPrecision :
                CallGetIntervals(t, v, p)
       \/ Step(t)

SpecPar == Init /\ [][NextPar]_vars

(***************************************************************************)
(* The known vectors of the tests (lib.rs 141-212)                         *)
(***************************************************************************)
KnownVectors ==
    \A t \in Threads :
       pc[t] = "done" /\ result[t].kind = "Ok" =>
          /\ (self[t] = "Geohash" /\ <<x[t], y[t]>> = APPLETON_LAT_LONG /\ precision[t] = 6
                => out[t] = <<"d", "p", "c", "5", "u", "6">>)
          /\ (self[t] = "Geohash" /\ <<x[t], y[t]>> = FORT_COLLINS_LAT_LONG /\ precision[t] = 8
                => out[t] = <<"9", "x", "j", "q", "8", "z", "s", "6">>)
          /\ (self[t] = "Geohash16" /\ <<x[t], y[t]>> = APPLETON_LAT_LONG /\ precision[t] = 6
                => out[t] = <<"6", "5", "5", "6", "5", "d">>)
          /\ (self[t] = "Geohash16" /\ <<x[t], y[t]>> = FORT_COLLINS_LAT_LONG /\ precision[t] = 8
                => out[t] = <<"4", "f", "6", "3", "6", "4", "7", "f">>)
          /\ (self[t] = "QuadTile" /\ <<x[t], y[t]>> = APPLETON_MERCATOR /\ precision[t] = 6
                => out[t] = <<"0", "3", "0", "2", "2", "2">>)
          /\ (self[t] = "QuadTile" /\ <<x[t], y[t]>> = FORT_COLLINS_MERCATOR /\ precision[t] = 8
                => out[t] = <<"0", "2", "3", "1", "0", "1", "0", "1">>)

\* every halving the model performed so far was exact
Exact ==
    \A t \in Threads :
       op[t] = "encode" /\ pc[t] \in {"while", "for"} =>
          /\ min_x[t].f[FracLimbs] % 2 = 0 /\ max_x[t].f[FracLimbs] % 2 = 0
          /\ min_y[t].f[FracLimbs] % 2 = 0 /\ max_y[t].f[FracLimbs] % 2 = 0


(***************************************************************************)
(* Vocabulary of the properties                                            *)
(***************************************************************************)
Bounds(v) == <<Params(v)[1], Params(v)[2], Params(v)[3], Params(v)[4]>>
BitsPerSymbol(v) == Params(v)[5]
Alphabet(v) == Params(v)[6]

\* thread t is in an encode call
Encoding(t) == op[t] = "encode"
\* thread t's encode call has ended
Encoded(t) == op[t] = "encode" /\ pc[t] = "done"

\* the coordinate of t's call lies in the variant's rectangle, bounds included
InBounds(t) ==
    /\ Ge(x[t], Bounds(self[t])[1]) /\ Le(x[t], Bounds(self[t])[2])
    /\ Ge(y[t], Bounds(self[t])[3]) /\ Le(y[t], Bounds(self[t])[4])

\* the number of bits of the log that refined axis a
CountAxis(l, a) == Cardinality({k \in 1..Len(l) : l[k].axis = a})

\* the call needs no more bits than an i8 counts
FitsI8(t) == precision[t] * char_bits[t] <= I8_MAX

(***************************************************************************)
(* C1: for every variant, every coordinate inside the bounds and every     *)
(* precision p >= 1, encode returns Ok with a string of exactly p          *)
(* characters, each of the variant's alphabet.                             *)
(***************************************************************************)
C1_Shape(t) ==
    /\ result[t].kind = "Ok"
    /\ Len(result[t].val) = precision[t]
    /\ \A k \in 1..Len(result[t].val) :
          \E j \in 1..Len(Alphabet(self[t])) : result[t].val[k] = Alphabet(self[t])[j]

\* C1: an encode call with a coordinate in bounds and p >= 1 returns Ok with
\* exactly p characters of the variant's alphabet
C1_LengthAndAlphabet ==
    \A t \in Threads :
       Encoded(t) /\ InBounds(t) /\ precision[t] >= 1 => C1_Shape(t)

\* the same, for the calls of at most 127 bits
C1_LengthAndAlphabetFitsI8 ==
    \A t \in Threads :
       Encoded(t) /\ InBounds(t) /\ precision[t] >= 1 /\ FitsI8(t) => C1_Shape(t)

(***************************************************************************)
(* C2: encode returns an error, and no code string, exactly when x < min_x *)
(* or x > max_x or y < min_y or y > max_y; a coordinate equal to a bound,  *)
(* the four corners included, passes the check and is encoded.             *)
(***************************************************************************)
C2_Outside(t) ==
    \/ Lt(x[t], Bounds(self[t])[1]) \/ Gt(x[t], Bounds(self[t])[2])
    \/ Lt(y[t], Bounds(self[t])[3]) \/ Gt(y[t], Bounds(self[t])[4])

\* C2: Err exactly for x < min_x or x > max_x or y < min_y or y > max_y, and
\* then no bit and no character is produced; only coordinates inside the
\* bounds, the bounds included, enter the loop, and what they return is out
C2_ErrorIffOutside ==
    \A t \in Threads :
       /\ Encoded(t) => (result[t].kind = "Err" <=> C2_Outside(t))
       /\ Encoded(t) /\ result[t].kind = "Err" => out[t] = <<>> /\ log[t] = <<>>
       /\ Encoding(t) /\ pc[t] \in {"while", "for"} => ~C2_Outside(t)
       /\ Encoded(t) /\ ~C2_Outside(t) /\ result[t].kind = "Ok" =>
             result[t].val = out[t] /\ Len(out[t]) = precision[t]

\* a corner of the rectangle has been encoded
C2_CornerEncoded ==
    \E t \in Threads :
       /\ Encoded(t) /\ result[t].kind = "Ok" /\ precision[t] >= 1
       /\ <<x[t], y[t]>> \in Corners(Bounds(self[t]))
       /\ Len(result[t].val) = precision[t]

(***************************************************************************)
(* C3: whenever the coordinate on the axis being refined is exactly equal  *)
(* to the midpoint of the current interval, encode assigns it to the upper *)
(* half of that interval (emits bit 1 and moves the lower bound to the     *)
(* midpoint).  The code assigns it to the lower half.                      *)
(***************************************************************************)
\* the next bit of t's call refines axis a, whose coordinate is the midpoint
TieOnX(t) ==
    /\ Encoding(t) /\ pc[t] = "for" /\ bit_i[t] < char_bits[t]
    /\ Len(log[t]) % 2 = 0
    /\ x[t] = Half(Add(max_x[t], min_x[t]))
TieOnY(t) ==
    /\ Encoding(t) /\ pc[t] = "for" /\ bit_i[t] < char_bits[t]
    /\ Len(log[t]) % 2 = 1
    /\ y[t] = Half(Add(max_y[t], min_y[t]))

\* the bit the step appended to the accumulator
BitAppended(t, b) == hash_value'[t] = 2 * hash_value[t] + b

\* C3 as claimed: a coordinate equal to the midpoint goes to the upper half
\* (bit 1, the lower bound moves to the midpoint)
C3_TieGoesUp ==
    [][\A t \in Threads :
          /\ TieOnX(t) => BitAppended(t, 1) /\ min_x'[t] = x[t] /\ max_x'[t] = max_x[t]
          /\ TieOnY(t) => BitAppended(t, 1) /\ min_y'[t] = y[t] /\ max_y'[t] = max_y[t]]_vars

\* C3 as amended: a coordinate equal to the midpoint goes to the lower half
\* (bit 0, the upper bound moves to the midpoint)
C3_TieGoesDown ==
    [][\A t \in Threads :
          /\ TieOnX(t) => BitAppended(t, 0) /\ max_x'[t] = x[t] /\ min_x'[t] = min_x[t]
          /\ TieOnY(t) => BitAppended(t, 0) /\ max_y'[t] = y[t] /\ min_y'[t] = min_y[t]]_vars

\* a call has refined an axis whose coordinate was the midpoint, on x and on y
C3_TieHappened ==
    \E t \in Threads : \E j, k \in 1..Len(log[t]) :
       /\ log[t][j].tie /\ log[t][j].axis = "x" /\ max_x[t] = x[t]
       /\ log[t][k].tie /\ log[t][k].axis = "y" /\ max_y[t] = y[t]

(***************************************************************************)
(* C4: encode equals the bit-interleaved grid reference: with n = p*b,     *)
(* nx = ceil(n/2), ny = floor(n/2), cx the index of the cell of x among    *)
(* 2^nx equal cells of [min_x, max_x] and cy likewise among 2^ny (a point  *)
(* on an interior edge belongs to the lower cell), the stream              *)
(* s_(2k) = k-th digit of cx, s_(2k+1) = k-th digit of cy, cut into p      *)
(* groups of b bits, gives the alphabet indices of the characters.         *)
(***************************************************************************)
\* long division of an offset r by a width w: [d |-> the n binary digits, most
\* significant first, of the index of the cell that holds r when w is cut
\* into 2^n cells, a point on an edge going to the lower cell; r |-> the
\* offset within that cell, scaled by 2^n]
RECURSIVE Divide(_, _, _)
Divide(r, w, n) ==
    IF n = 0 THEN [d |-> <<>>, r |-> r]
    ELSE IF n = 1
         THEN LET d == Add(r, r)
              IN  IF Gt(d, w) THEN [d |-> <<1>>, r |-> Sub(d, w)] ELSE [d |-> <<0>>, r |-> d]
         ELSE LET head == Divide(r, w, n \div 2)
                  tail == Divide(head.r, w, n - n \div 2)
              IN  [d |-> head.d \o tail.d, r |-> tail.r]

CellDigits(r, w, n) == Divide(r, w, n).d

GridCode(v, px, py, p) ==
    LET b == BitsPerSymbol(v)
        n == p * b
        cx == CellDigits(Sub(px, Bounds(v)[1]), Sub(Bounds(v)[2], Bounds(v)[1]), (n + 1) \div 2)
        cy == CellDigits(Sub(py, Bounds(v)[3]), Sub(Bounds(v)[4], Bounds(v)[3]), n \div 2)
        s(k) == IF k % 2 = 0 THEN cx[k \div 2 + 1] ELSE cy[k \div 2 + 1]
        index(c) ==
            LET val[i \in 0..b] == IF i = 0 THEN 0 ELSE 2 * val[i - 1] + s(c * b + i - 1)
            IN  val[b]
    IN  [c \in 1..p |-> Alphabet(v)[index(c - 1) + 1]]

\* C4: the characters encode returns are those of the grid reference
C4_GridReference ==
    \A t \in Threads :
       Encoded(t) /\ InBounds(t) /\ precision[t] >= 1 =>
          /\ result[t].kind = "Ok"
          /\ result[t].val = GridCode(self[t], x[t], y[t], precision[t])

\* the same, for the calls of at most 127 bits
C4_GridReferenceFitsI8 ==
    \A t \in Threads :
       Encoded(t) /\ InBounds(t) /\ precision[t] >= 1 /\ FitsI8(t) =>
          /\ result[t].kind = "Ok"
          /\ result[t].val = GridCode(self[t], x[t], y[t], precision[t])

(***************************************************************************)
(* C5: for every precision p >= 1, get_intervals returns                   *)
(* (W_x / 2^bx, W_y / 2^by) with (bx, by) = (ceil(5p/2), floor(5p/2)) for  *)
(* Geohash, (2p, 2p) for Geohash16, (p, p) for QuadTile: the u32 powers    *)
(* equal the mathematical powers.                                          *)
(***************************************************************************)
C5_Exponents(v, p) ==
    CASE v = "Geohash" -> <<(5 * p + 1) \div 2, (5 * p) \div 2>>
      [] v = "Geohash16" -> <<2 * p, 2 * p>>
      [] v = "QuadTile" -> <<p, p>>

C5_Widths(v) == <<Sub(Bounds(v)[2], Bounds(v)[1]), Sub(Bounds(v)[4], Bounds(v)[3])>>

C5_Cell(v, p) ==
    <<HalfTimes(C5_Widths(v)[1], C5_Exponents(v, p)[1]),
      HalfTimes(C5_Widths(v)[2], C5_Exponents(v, p)[2])>>

\* C5: get_intervals(p) returns (W_x / 2^bx, W_y / 2^by) for every p >= 1
C5_IntervalsFormula ==
    \A t \in Threads :
       op[t] = "get_intervals" /\ pc[t] = "done" /\ precision[t] >= 1 =>
          /\ result[t].kind = "Ok"
          /\ result[t].val = C5_Cell(self[t], precision[t])

\* the same, for the exponents a u32 power of two allows
C5_IntervalsFormulaFitsU32 ==
    \A t \in Threads :
       /\ op[t] = "get_intervals" /\ pc[t] = "done" /\ precision[t] >= 1
       /\ C5_Exponents(self[t], precision[t])[1] <= 31
       => /\ result[t].kind = "Ok"
          /\ result[t].val = C5_Cell(self[t], precision[t])

(***************************************************************************)
(* C6: get_intervals agrees with encode's bit consumption: the numbers of  *)
(* x- and y-bisections encode performs for p characters are the exponents  *)
(* by which get_intervals(p) divides the widths, so the rectangle encode   *)
(* ends with has width and height equal to get_intervals(p).               *)
(***************************************************************************)
\* C6: encode's bisection counts are get_intervals' exponents and its final
\* rectangle has the width and height get_intervals(p) returns
C6_IntervalsMatchEncode ==
    \A t \in Threads :
       Encoded(t) /\ InBounds(t) /\ precision[t] >= 1 =>
          /\ result[t].kind = "Ok"
          /\ CountAxis(log[t], "x") = IntervalBits(self[t], precision[t])[1]
          /\ CountAxis(log[t], "y") = IntervalBits(self[t], precision[t])[2]
          /\ GetIntervals(self[t], precision[t], overflow_checks) =
                OkResult(<<Sub(max_x[t], min_x[t]), Sub(max_y[t], min_y[t])>>)

\* the same, for the exponents a u32 power of two allows
C6_IntervalsMatchEncodeFitsU32 ==
    \A t \in Threads :
       /\ Encoded(t) /\ InBounds(t) /\ precision[t] >= 1
       /\ IntervalBits(self[t], precision[t])[1] <= 31
       => /\ result[t].kind = "Ok"
          /\ CountAxis(log[t], "x") = IntervalBits(self[t], precision[t])[1]
          /\ CountAxis(log[t], "y") = IntervalBits(self[t], precision[t])[2]
          /\ GetIntervals(self[t], precision[t], overflow_checks) =
                OkResult(<<Sub(max_x[t], min_x[t]), Sub(max_y[t], min_y[t])>>)

(***************************************************************************)
(* C7: calls are independent: two encode calls with the same variant, x, y *)
(* and precision return the same result whatever calls ran before them or  *)
(* are interleaved with them; a step of a call reads and writes only that  *)
(* call's own rectangle, bit counter, accumulator and output buffer.       *)
(***************************************************************************)
\* everything of thread t's call
Frame(t) ==
    <<pc[t], op[t], self[t], x[t], y[t], precision[t], min_x[t], max_x[t], min_y[t],
      max_y[t], char_bits[t], codes[t], bits_total[t], hash_value[HashCell(t)], out[t],
      bit_i[t], result[t], log[t]>>

SameCall(t, u) ==
    /\ op[t] = op[u] /\ self[t] = self[u] /\ precision[t] = precision[u]
    /\ x[t] = x[u] /\ y[t] = y[u]

C7_SameResult ==
    \A t, u \in Threads :
       pc[t] = "done" /\ pc[u] = "done" /\ SameCall(t, u) => result[t] = result[u]

C7_OwnFrameOnly ==
    \A t, u \in Threads : t /= u => Frame(t)' = Frame(t) \/ Frame(u)' = Frame(u)

\* C7: calls with the same arguments end with the same result, and a step
\* changes the frame of one call only
C7_Independent == []C7_SameResult /\ [][C7_OwnFrameOnly]_vars

\* two calls of different threads with the same arguments have both
\* returned the same code
C7_TwoCallsDone ==
    \E t, u \in Threads :
       /\ t /= u /\ Encoded(t) /\ Encoded(u) /\ SameCall(t, u)
       /\ result[t].kind = "Ok" /\ result[u].kind = "Ok"
       /\ Len(result[t].val) >= 1 /\ result[t] = result[u]

(***************************************************************************)
(* C8: the k-th bit of a call (k from 0) refines x when k is even and y    *)
(* when k is odd; the alternation does not restart at character            *)
(* boundaries, so a Geohash character at an odd position begins with a     *)
(* y-refinement.                                                           *)
(***************************************************************************)
\* C8: bit k of a call refines x iff k is even, and a character whose first
\* bit has an odd index starts on y
C8_Alternation ==
    \A t \in Threads :
       /\ \A k \in 1..Len(log[t]) : log[t][k].axis = (IF (k - 1) % 2 = 0 THEN "x" ELSE "y")
       /\ Encoding(t) /\ pc[t] = "for" /\ bit_i[t] = 0 =>
             (SplitsX(t) <=> (Len(out[t]) * char_bits[t]) % 2 = 0)

\* the second character of a Geohash began with a y-refinement, and a call
\* has produced more bits than an i8 counts
C8_SecondCharStartsOnY ==
    \E t \in Threads :
       /\ Encoding(t) /\ self[t] = "Geohash" /\ Len(log[t]) > I8_MAX + 1
       /\ log[t][6].axis = "y" /\ log[t][I8_MAX + 2].axis = "x"

(***************************************************************************)
(* C9: for a coordinate in range, at every step of encode the working      *)
(* rectangle contains the point and is a sub-rectangle of the rectangle of *)
(* the step before; so the cell of the returned code contains the point.   *)
(***************************************************************************)
C9_Contains ==
    \A t \in Threads :
       Encoding(t) /\ (pc[t] \in {"while", "for"} \/ (pc[t] = "done" /\ result[t].kind /= "Err")) =>
          /\ Le(min_x[t], x[t]) /\ Le(x[t], max_x[t])
          /\ Le(min_y[t], y[t]) /\ Le(y[t], max_y[t])

C9_Narrows ==
    \A t \in Threads :
       Encoding(t) /\ pc[t] \in {"while", "for"} =>
          /\ Le(min_x[t], min_x'[t]) /\ Le(max_x'[t], max_x[t])
          /\ Le(min_y[t], min_y'[t]) /\ Le(max_y'[t], max_y[t])

\* C9: the rectangle of an accepted call always holds the point, and every
\* step leaves it inside the rectangle before
C9_RectangleHoldsPoint == []C9_Contains /\ [][C9_Narrows]_vars

\* an encode call returned a code for a point that is strictly inside its
\* final rectangle, which is smaller than the variant's
C9_PointInsideCell ==
    \E t \in Threads :
       /\ Encoded(t) /\ result[t].kind = "Ok" /\ precision[t] >= 2
       /\ Lt(min_x[t], x[t]) /\ Lt(x[t], max_x[t])
       /\ Lt(min_y[t], y[t]) /\ Lt(y[t], max_y[t])
       /\ Gt(min_x[t], Bounds(self[t])[1]) /\ Lt(max_y[t], Bounds(self[t])[4])

(***************************************************************************)
(* C10: throughout every encode call, for every variant and precision,     *)
(* bits_total equals the number of bits produced so far and stays within   *)
(* the range of an i8 (at most 127): encode completes without arithmetic   *)
(* overflow.                                                               *)
(***************************************************************************)
\* C10: bits_total is the number of bits produced, at most 127, and encode
\* does not panic
C10_BitsTotalCounts ==
    \A t \in Threads :
       Encoding(t) /\ pc[t] \in {"while", "for", "done"} /\ result[t].kind /= "Err" =>
          /\ bits_total[t] = Len(log[t])
          /\ bits_total[t] <= I8_MAX
          /\ result[t].kind /= "Panic"

\* the same, for the calls of at most 127 bits
C10_BitsTotalCountsFitsI8 ==
    \A t \in Threads :
       /\ Encoding(t) /\ pc[t] \in {"while", "for", "done"} /\ result[t].kind /= "Err"
       /\ FitsI8(t)
       => /\ bits_total[t] = Len(log[t])
          /\ bits_total[t] <= I8_MAX
          /\ result[t].kind /= "Panic"

=============================================================================
